---- MODULE Spec2Model ----
(***************************************************************************)
(* FailBot (src/lib/failbot.js): a client that reports exceptions to a     *)
(* remote error-aggregation service with one HTTP POST per report.         *)
(*                                                                         *)
(* Text that the code takes apart (URLs, environment variable names, the   *)
(* input of base64) is a sequence of one-character strings; text that is   *)
(* only stored or compared (property names, header values) is a string.    *)
(* An optional value is a record with a boolean "defined" field.           *)
(***************************************************************************)
EXTENDS Integers, Sequences, FiniteSets, TLC

(***************************************************************************)
(* Characters and strings                                                  *)
(***************************************************************************)

\* The printable ASCII characters, in code order from 32 (space) to 126
\* (code 96, the grave accent, is a placeholder that no text uses).
Ascii ==
  << " ", "!", "\"", "#", "$", "%", "&", "'", "(", ")", "*", "+", ",", "-", ".", "/",
     "0", "1", "2", "3", "4", "5", "6", "7", "8", "9", ":", ";", "<", "=", ">", "?",
     "@", "A", "B", "C", "D", "E", "F", "G", "H", "I", "J", "K", "L", "M", "N", "O",
     "P", "Q", "R", "S", "T", "U", "V", "W", "X", "Y", "Z", "[", "\\", "]", "^", "_",
     "(grave)", "a", "b", "c", "d", "e", "f", "g", "h", "i", "j", "k", "l", "m", "n", "o",
     "p", "q", "r", "s", "t", "u", "v", "w", "x", "y", "z", "{", "|", "}", "~" >>

\* The byte of a character under UTF-8 (all modelled characters are ASCII).
CharCode(c) ==
  IF c = "\n" THEN 10 ELSE 31 + (CHOOSE i \in 1..Len(Ascii) : Ascii[i] = c)

\* The string that characters from..to of s spell.
RECURSIVE StrOf(_, _, _)
StrOf(s, from, to) ==
  IF from > to THEN ""
  ELSE IF from = to THEN s[from]
  ELSE LET mid == (from + to) \div 2 IN
       StrOf(s, from, mid) \o StrOf(s, mid + 1, to)

\* The string a sequence of characters spells.
Str(s) == StrOf(s, 1, Len(s))

\* The first position >= from at which character c occurs in s, or 0.
RECURSIVE IndexOf(_, _, _)
IndexOf(s, c, from) ==
  IF from > Len(s) THEN 0
  ELSE IF s[from] = c THEN from
  ELSE IndexOf(s, c, from + 1)

\* String.prototype.startsWith
startsWith(s, prefix) ==
  /\ Len(s) >= Len(prefix)
  /\ SubSeq(s, 1, Len(prefix)) = prefix

\* String.prototype.split(sep) for a one-character separator.
RECURSIVE split(_, _)
split(s, sep) ==
  LET i == IndexOf(s, sep, 1) IN
  IF i = 0 THEN << s >>
  ELSE << SubSeq(s, 1, i - 1) >> \o split(SubSeq(s, i + 1, Len(s)), sep)

\* String.prototype.replace(/c/g, ""): every occurrence of c removed.
removeAll(s, c) == SelectSeq(s, LAMBDA ch : ch # c)

\* The base64 alphabet, by 6-bit value.
Base64Alphabet ==
  << "A", "B", "C", "D", "E", "F", "G", "H", "I", "J", "K", "L", "M", "N", "O", "P",
     "Q", "R", "S", "T", "U", "V", "W", "X", "Y", "Z", "a", "b", "c", "d", "e", "f",
     "g", "h", "i", "j", "k", "l", "m", "n", "o", "p", "q", "r", "s", "t", "u", "v",
     "w", "x", "y", "z", "0", "1", "2", "3", "4", "5", "6", "7", "8", "9", "+", "/" >>

\* base64 of the bytes of b from position i on: three bytes give four
\* characters, a last group of one or two bytes is padded with "=".
RECURSIVE Base64Bytes(_, _)
Base64Bytes(b, i) ==
  LET A(n) == Base64Alphabet[n + 1]
      left == Len(b) - i + 1
  IN
  IF left <= 0 THEN <<>>
  ELSE IF left = 1 THEN
    << A(b[i] \div 4), A((b[i] % 4) * 16), "=", "=" >>
  ELSE IF left = 2 THEN
    << A(b[i] \div 4), A((b[i] % 4) * 16 + b[i + 1] \div 16),
       A((b[i + 1] % 16) * 4), "=" >>
  ELSE
    << A(b[i] \div 4), A((b[i] % 4) * 16 + b[i + 1] \div 16),
       A((b[i + 1] % 16) * 4 + b[i + 2] \div 64), A(b[i + 2] % 64) >>
    \o Base64Bytes(b, i + 3)

\* Buffer.from(str).toString('base64')
toBase64(s) == Base64Bytes([i \in 1..Len(s) |-> CharCode(s[i])], 1)

(***************************************************************************)
(* Optional values and objects                                             *)
(***************************************************************************)

\* A JavaScript value that may be undefined.
Undefined == [defined |-> FALSE, value |-> <<>>]
Defined(v) == [defined |-> TRUE, value |-> v]

\* The text a template literal `${v}` gives for an optional string.
TemplateText(v) ==
  IF v.defined THEN v.value ELSE << "u", "n", "d", "e", "f", "i", "n", "e", "d" >>

\* An object with no properties.
EmptyObject == [k \in {} |-> ""]

\* Object.assign(target, source) on objects as functions from property
\* names to values: the source's properties overwrite the target's.
ObjectAssign(target, source) ==
  [k \in DOMAIN target \cup DOMAIN source |->
     IF k \in DOMAIN source THEN source[k] ELSE target[k]]

(***************************************************************************)
(* createRollup                                                            *)
(***************************************************************************)

\* A variant that takes the first line of the stack (index 0).
stackLine_firstLine(error) ==
  IF ~error.stack.defined THEN Undefined
  ELSE IF error.stack.value = <<>> THEN Defined(<<>>)
  ELSE Defined(split(error.stack.value, "\n")[1])

\* error.stack && error.stack.split('\n')[1]: an absent stack gives
\* undefined, an empty stack gives the empty string (both are falsy and &&
\* returns them), any other stack gives its second line, undefined if it
\* has only one line.
stackLine(error) ==
  IF ~error.stack.defined THEN Undefined
  ELSE IF error.stack.value = <<>> THEN Defined(<<>>)
  ELSE LET lines == split(error.stack.value, "\n") IN
       IF Len(lines) >= 2 THEN Defined(lines[2]) ELSE Undefined

\* The string createRollup encodes: `${error.name}:${stackLine}` with every
\* "=" removed.
rollupStr(error) ==
  removeAll(error.name \o << ":" >> \o TemplateText(stackLine(error)), "=")

createRollup(error) == toBase64(rollupStr(error))

(***************************************************************************)
(* new URL(string)                                                         *)
(*                                                                         *)
(* The WHATWG URL parser without a base URL, for the inputs an endpoint    *)
(* setting takes: scheme, optional credentials, host, optional port, path, *)
(* query and fragment.  Not modelled, and absent from the modelled inputs: *)
(* leading or trailing spaces, tabs and newlines, IPv4/IPv6 literals, IDNA,*)
(* dot segments and percent-encoding inside the path.                      *)
(***************************************************************************)

UpperCase == { Ascii[i] : i \in 34..59 }
LowerCaseLetters == { Ascii[i] : i \in 66..91 }
Digits == { Ascii[i] : i \in 17..26 }

\* String.prototype.toLowerCase on one character and on a string.
lowerChar(c) == IF c \in UpperCase THEN Ascii[CharCode(c) + 1] ELSE c
toLowerCase(s) == [i \in 1..Len(s) |-> lowerChar(s[i])]

\* The schemes the URL standard calls special, with their default ports
\* ("file" is left out: it has no authority credentials).
SpecialSchemes ==
  { <<"h","t","t","p">>, <<"h","t","t","p","s">>, <<"w","s">>,
    <<"w","s","s">>, <<"f","t","p">> }

DefaultPort(scheme) ==
  IF scheme \in { <<"h","t","t","p">>, <<"w","s">> } THEN <<"8","0">>
  ELSE IF scheme \in { <<"h","t","t","p","s">>, <<"w","s","s">> }
    THEN <<"4","4","3">>
  ELSE IF scheme = <<"f","t","p">> THEN <<"2","1">>
  ELSE <<"-">>

\* Characters the parser percent-encodes inside a username or password.
UserinfoEncodeSet ==
  { " ", "\"", "#", "<", ">", "?", "{", "}", "/", ":", ";", "=", "@",
    "[", "\\", "]", "^", "|" }

HexDigits ==
  << "0","1","2","3","4","5","6","7","8","9","A","B","C","D","E","F" >>

RECURSIVE userinfoEncode(_)
userinfoEncode(s) ==
  IF s = <<>> THEN <<>>
  ELSE LET c == Head(s) IN
       (IF c \in UserinfoEncodeSet
          THEN << "%", HexDigits[(CharCode(c) \div 16) + 1],
                  HexDigits[(CharCode(c) % 16) + 1] >>
          ELSE << c >>)
       \o userinfoEncode(Tail(s))

\* The last position at which character c occurs in s, or 0.
RECURSIVE LastIndexOf(_, _, _)
LastIndexOf(s, c, from) ==
  IF from < 1 THEN 0
  ELSE IF s[from] = c THEN from
  ELSE LastIndexOf(s, c, from - 1)

\* The first position >= from of a character of set cs in s, or Len(s) + 1.
RECURSIVE FirstOf(_, _, _)
FirstOf(s, cs, from) ==
  IF from > Len(s) THEN Len(s) + 1
  ELSE IF s[from] \in cs THEN from
  ELSE FirstOf(s, cs, from + 1)

\* The first position >= from of a character not in set cs, or Len(s) + 1.
RECURSIVE SkipAll(_, _, _)
SkipAll(s, cs, from) ==
  IF from > Len(s) THEN Len(s) + 1
  ELSE IF s[from] \notin cs THEN from
  ELSE SkipAll(s, cs, from + 1)

\* The value of a sequence of decimal digits.
RECURSIVE decimal(_)
decimal(s) ==
  IF s = <<>> THEN 0
  ELSE 10 * decimal(SubSeq(s, 1, Len(s) - 1)) + (CharCode(s[Len(s)]) - 48)

\* Host characters that make the parser fail.
ForbiddenHostChars ==
  { " ", "#", "/", ":", "<", ">", "?", "@", "[", "\\", "]", "^", "|", "%" }

URLFailure ==
  [ok |-> FALSE, origin |-> <<>>, pathname |-> <<>>, username |-> <<>>,
   password |-> <<>>, search |-> <<>>, hash |-> <<>>]

\* The serialised port: no leading zeros, and none at all when it is the
\* scheme's default.
serializePort(scheme, portRaw) ==
  LET nz == SkipAll(portRaw, {"0"}, 1)
      trimmed == IF portRaw = <<>> THEN <<>>
                 ELSE IF nz > Len(portRaw) THEN <<"0">>
                 ELSE SubSeq(portRaw, nz, Len(portRaw))
  IN IF trimmed = DefaultPort(scheme) THEN <<>> ELSE trimmed

\* The last stage of the parser: checks host and port and builds the URL
\* object from the parts; tail is the input from the path on.
parseHostAndPath(scheme, atSeen, username, password, hostport, tail) ==
  LET special == scheme \in SpecialSchemes
      pcolon == IndexOf(hostport, ":", 1)
      host ==
        toLowerCase(IF pcolon = 0 THEN hostport ELSE SubSeq(hostport, 1, pcolon - 1))
      portRaw ==
        IF pcolon = 0 THEN <<>> ELSE SubSeq(hostport, pcolon + 1, Len(hostport))
      pathEnd == FirstOf(tail, {"?", "#"}, 1)
      hashAt == FirstOf(tail, {"#"}, 1)
  IN
  IF ~(/\ \A i \in 1..Len(portRaw) : portRaw[i] \in Digits
       /\ Len(portRaw) <= 5
       /\ decimal(portRaw) <= 65535
       /\ \A i \in 1..Len(host) : host[i] \notin ForbiddenHostChars
       /\ special => host # <<>>
       /\ atSeen => hostport # <<>>
       /\ (host = <<>>) => portRaw = <<>>)
    THEN URLFailure
  ELSE
    [ok |-> TRUE,
     origin |->
       IF special
         THEN scheme \o <<":", "/", "/">> \o host
              \o (IF serializePort(scheme, portRaw) = <<>> THEN <<>>
                  ELSE <<":">> \o serializePort(scheme, portRaw))
         ELSE <<"n", "u", "l", "l">>,
     pathname |->
       IF special /\ pathEnd = 1 THEN <<"/">> ELSE SubSeq(tail, 1, pathEnd - 1),
     username |-> username,
     password |-> password,
     search |-> IF hashAt - pathEnd <= 1 THEN <<>>
                ELSE SubSeq(tail, pathEnd, hashAt - 1),
     hash |-> IF Len(tail) - hashAt < 1 THEN <<>>
              ELSE SubSeq(tail, hashAt, Len(tail))]

\* The authority: the credentials are what precedes its last "@", the
\* username what precedes the first ":" of the credentials.
parseAuthority(scheme, authority, tail) ==
  LET at == LastIndexOf(authority, "@", Len(authority))
      sep == IndexOf(SubSeq(authority, 1, at - 1), ":", 1)
  IN
  parseHostAndPath(
    scheme, at > 0,
    userinfoEncode(SubSeq(authority, 1, IF sep = 0 THEN at - 1 ELSE sep - 1)),
    userinfoEncode(IF sep = 0 THEN <<>> ELSE SubSeq(authority, sep + 1, at - 1)),
    SubSeq(authority, at + 1, Len(authority)),
    tail)

\* After "scheme:": special schemes ignore any run of slashes before the
\* authority, other schemes have an authority only after exactly "//"; the
\* authority ends at the first "/", "?" or "#" (or "\" for special schemes).
parseAfterScheme(scheme, rest) ==
  LET special == scheme \in SpecialSchemes
      hasAuthority ==
        special \/ (Len(rest) >= 2 /\ rest[1] = "/" /\ rest[2] = "/")
      authStart ==
        IF special THEN SkipAll(rest, {"/", "\\"}, 1)
        ELSE IF hasAuthority THEN 3 ELSE 1
      authEnd ==
        IF ~hasAuthority THEN 1
        ELSE FirstOf(rest, IF special THEN {"/", "\\", "?", "#"}
                                      ELSE {"/", "?", "#"}, authStart)
  IN
  parseAuthority(scheme,
                 SubSeq(rest, authStart, authEnd - 1),
                 SubSeq(rest, authEnd, Len(rest)))

\* new URL(input): ok = FALSE stands for the TypeError the constructor
\* throws.  The scheme is what precedes the first ":"; it starts with a
\* letter and has only letters, digits, "+", "-" and ".".
URL(input) ==
  LET colon == IndexOf(input, ":", 1) IN
  IF ~(/\ colon > 1
       /\ lowerChar(input[1]) \in LowerCaseLetters
       /\ \A i \in 1..(colon - 1) :
            lowerChar(input[i]) \in LowerCaseLetters \cup Digits \cup {"+", "-", "."})
    THEN URLFailure
  ELSE parseAfterScheme(toLowerCase(SubSeq(input, 1, colon - 1)),
                        SubSeq(input, colon + 1, Len(input)))

(***************************************************************************)
(* process.env                                                             *)
(***************************************************************************)

\* Names of environment variables the code reads.
HAYSTACK_URL == <<"H", "A", "Y", "S", "T", "A", "C", "K", "_", "U", "R", "L">>
FAILBOT_CONTEXT_ == <<"F", "A", "I", "L", "B", "O", "T", "_", "C", "O", "N", "T", "E", "X", "T", "_">>

\* process.env[name] for an environment given as the sequence of its
\* entries [name, value] in enumeration order: undefined when not set.
getenv(environment, name) ==
  IF \E i \in DOMAIN environment : environment[i].name = name
    THEN Defined(environment[CHOOSE i \in DOMAIN environment :
                               environment[i].name = name].value)
    ELSE Undefined

\* getFailbotContext: one entry per variable whose name starts with the
\* prefix, keyed by the rest of the name in lower case; entries are written
\* in enumeration order, so a later variable overwrites an earlier one with
\* the same formatted key.
RECURSIVE getFailbotContext(_)
getFailbotContext(environment) ==
  IF environment = <<>> THEN EmptyObject
  ELSE
    LET n == Len(environment)
        key == environment[n].name
        failbotKeys == getFailbotContext(SubSeq(environment, 1, n - 1))
        formattedKey ==
          toLowerCase(SubSeq(key, Len(FAILBOT_CONTEXT_) + 1, Len(key)))
    IN
    IF startsWith(key, FAILBOT_CONTEXT_)
      THEN ObjectAssign(failbotKeys,
                        Str(formattedKey) :> Str(environment[n].value))
      ELSE failbotKeys

(***************************************************************************)
(* The Reporter                                                            *)
(***************************************************************************)

\* process.version of the running Node.js
ProcessVersion == "v20.11.0"

\* The application id report() passes to the constructor.
App == "docs"

\* A variant that takes every URL to carry credentials.
hasCredentials_always(url) == TRUE

\* The condition of "if (username || password)".
hasCredentials(url) == url.username # <<>> \/ url.password # <<>>

\* The Authorization value the constructor derives.
basicAuthorization(url) ==
  "Basic " \o Str(toBase64(url.username \o <<":">> \o url.password))

\* A variant that keeps the endpoint as configured.
sanitizedURL_href(haystackURL) == haystackURL

\* The request URL the constructor keeps: `${url.origin}${url.pathname}`.
sanitizedURL(haystackURL) ==
  LET url == URL(haystackURL) IN url.origin \o url.pathname

\* The headers object after the constructor ran on it: this.headers is the
\* very object the caller passed, and the Authorization entry is written
\* into it.
constructorHeaders(url, headers) ==
  IF hasCredentials(url)
    THEN ObjectAssign(headers, "Authorization" :> basicAuthorization(url))
    ELSE headers

\* new FailBot({ app, haystackURL, headers }): thrown tells whether new URL
\* threw (nothing after it runs then), warned whether console.warn ran.
constructor(app, haystackURL, headers) ==
  LET url == URL(haystackURL) IN
  IF ~url.ok
    THEN [thrown |-> TRUE, warned |-> FALSE, app |-> app,
          haystackURL |-> <<>>, headers |-> headers]
    ELSE [thrown |-> FALSE,
          warned |-> ~hasCredentials(url),
          app |-> app,
          haystackURL |-> sanitizedURL(haystackURL),
          headers |-> constructorHeaders(url, headers)]

\* A variant that lays the metadata over the fixed fields.
formatJSON_metadataLast(error, metadata, now) ==
  ObjectAssign(
    [created_at |-> now,
     rollup |-> Str(createRollup(error)),
     class |-> Str(error.name),
     message |-> error.message,
     backtrace |-> IF error.stack.defined THEN Str(error.stack.value) ELSE "",
     js_environment |-> "Node.js " \o ProcessVersion],
    metadata)

\* formatJSON: the metadata overlaid by the fixed fields.
formatJSON(error, metadata, now) ==
  ObjectAssign(ObjectAssign(EmptyObject, metadata),
    [created_at |-> now,
     rollup |-> Str(createRollup(error)),
     class |-> Str(error.name),
     message |-> error.message,
     backtrace |-> IF error.stack.defined THEN Str(error.stack.value) ELSE "",
     js_environment |-> "Node.js " \o ProcessVersion])

\* The first merge of sendException:
\* Object.assign({ app: this.app }, this.getFailbotContext(), metadata)
requestData(app, environment, metadata) ==
  ObjectAssign(ObjectAssign([app |-> app], getFailbotContext(environment)),
               metadata)

\* The second merge of sendException: Object.assign({ app: this.app }, data)
withApp(app, data) == ObjectAssign([app |-> app], data)

\* JSON.stringify of an object whose values are strings: the text is
\* modelled by the set of its "key": "value" members.
JSONstringify(object) == { <<k, object[k]>> : k \in DOMAIN object }

\* A variant that spreads this.headers after Content-Type.
requestHeaders_callerLast(headers) ==
  ObjectAssign("Content-Type" :> "application/json", headers)

\* The headers of the fetch call: { ...this.headers, 'Content-Type': ... }
requestHeaders(headers) ==
  ObjectAssign(headers, "Content-Type" :> "application/json")

\* sendException up to the call of fetch: the arguments fetch receives.
\* An undefined metadata takes the parameter default {}.
sendException(this, error, metadata, environment, now) ==
  LET md == IF metadata.defined THEN metadata.value ELSE EmptyObject
      data == requestData(this.app, environment, md)
      body == formatJSON(error, withApp(this.app, data), now)
  IN [url |-> this.haystackURL,
      method |-> "POST",
      body |-> JSONstringify(body),
      headers |-> requestHeaders(this.headers)]

\* A variant that bails out only when the variable is not set.
notConfigured_unsetOnly(haystackURL) == ~haystackURL.defined

\* "if (!process.env.HAYSTACK_URL) return": unset or the empty string.
notConfigured(haystackURL) ==
  ~haystackURL.defined \/ haystackURL.value = <<>>

\* Promises: a state and, once settled, the value or the reason.
Pending == [state |-> "pending", value |-> ""]
Fulfilled(v) == [state |-> "fulfilled", value |-> v]
Rejected(r) == [state |-> "rejected", value |-> r]

\* The promise of an async function that returns without a value.
asyncReturn == Fulfilled("undefined")

\* A variant that catches the exception and returns nothing.
asyncThrow_caught(reason) == Fulfilled("undefined")

\* The promise of an async function whose body throws.
asyncThrow(reason) == Rejected(reason)

\* A variant that catches a rejection of p and returns nothing.
asyncReturnPromise_caught(p) ==
  IF p.state = "rejected" THEN Fulfilled("undefined") ELSE p

\* The promise of an async function that returns promise p ("return
\* fetch(...)", "return failbot.sendException(...)"): it takes p's outcome.
asyncReturnPromise(p) == p

(***************************************************************************)
(* Bounds and inputs                                                       *)
(***************************************************************************)

\* Most report() calls in one behaviour.
MaxCalls == 2

\* Most FAILBOT_CONTEXT_/other variables in a start-up environment.
MaxEnvVars == 2

\* Most lines of a stack trace given to createRollup.
MaxLines == 2

\* All sequences over set S of length at most n without repeated elements.
RECURSIVE DistinctSeqs(_, _)
DistinctSeqs(S, n) ==
  IF n = 0 THEN { <<>> }
  ELSE LET shorter == DistinctSeqs(S, n - 1) IN
       shorter \cup { Append(q, x) : <<q, x>> \in
                        { p \in shorter \X S :
                            \A i \in DOMAIN p[1] : p[1][i].name # p[2].name } }

\* Endpoint settings with credentials: user and password, user only,
\* password only, an explicit default port and upper-case host.
UrlUserPass == <<"h", "t", "t", "p", "s", ":", "/", "/", "a", "l", "i", "c", "e", ":", "s", "e", "c", "r", "e", "t", "@", "e", "r", "r", "o", "r", "s", ".", "i", "o", "/", "i", "n", "g", "e", "s", "t">>
UrlUserOnly == <<"h", "t", "t", "p", "s", ":", "/", "/", "b", "o", "b", "@", "e", "r", "r", "o", "r", "s", ".", "i", "o", "/", "i", "n", "g", "e", "s", "t", "?", "s", "r", "c", "=", "d", "o", "c", "s", "#", "t", "o", "p">>
UrlPassOnly == <<"h", "t", "t", "p", "s", ":", "/", "/", ":", "s", "3", "@", "e", "r", "r", "o", "r", "s", ".", "i", "o">>
UrlPortHost == <<"h", "t", "t", "p", ":", "/", "/", "u", ":", "p", "@", "E", "r", "r", "o", "r", "s", ".", "I", "O", ":", "8", "0", "/", "v", "1", "/", "i", "n">>
\* Endpoint settings without credentials.
UrlPlain == <<"h", "t", "t", "p", "s", ":", "/", "/", "e", "r", "r", "o", "r", "s", ".", "i", "o", "/", "i", "n", "g", "e", "s", "t">>
UrlEmptyUserinfo == <<"h", "t", "t", "p", "s", ":", "/", "/", ":", "@", "e", "r", "r", "o", "r", "s", ".", "i", "o", "/", "i", "n", "g", "e", "s", "t", "?", "k", "=", "v">>
UrlAtInPath == <<"h", "t", "t", "p", "s", ":", "/", "/", "e", "r", "r", "o", "r", "s", ".", "i", "o", ":", "8", "4", "4", "3", "/", "u", ":", "p", "@", "x">>
\* Settings that new URL rejects: no scheme, no host, credentials without
\* host, a port that is not a number.
UrlNoScheme == <<"e", "r", "r", "o", "r", "s", ".", "i", "o", "/", "i", "n", "g", "e", "s", "t">>
UrlNoHost == <<"h", "t", "t", "p", "s", ":", "/", "/">>
UrlCredsNoHost == <<"h", "t", "t", "p", "s", ":", "/", "/", "u", ":", "p", "@">>
UrlBadPort == <<"h", "t", "t", "p", "s", ":", "/", "/", "u", ":", "p", "@", "e", "r", "r", "o", "r", "s", ".", "i", "o", ":", "x", "/">>

UrlsWithCredentials == { UrlUserPass, UrlUserOnly, UrlPassOnly, UrlPortHost }
UrlsWithoutCredentials == { UrlPlain, UrlEmptyUserinfo, UrlAtInPath }
UrlsMalformed == { UrlNoScheme, UrlNoHost, UrlCredsNoHost, UrlBadPort }

\* What the endpoints above are made of, written down independently of the
\* parser and of base64: the credentials as given, origin + pathname, and
\* "Basic " followed by base64(username:password).
Parts(u) ==
  CASE u = UrlUserPass -> [username |-> <<"a", "l", "i", "c", "e">>, password |-> <<"s", "e", "c", "r", "e", "t">>,
                           target |-> <<"h", "t", "t", "p", "s", ":", "/", "/", "e", "r", "r", "o", "r", "s", ".", "i", "o", "/", "i", "n", "g", "e", "s", "t">>,
                           authorization |-> "Basic YWxpY2U6c2VjcmV0"]
    [] u = UrlUserOnly -> [username |-> <<"b", "o", "b">>, password |-> <<>>,
                           target |-> <<"h", "t", "t", "p", "s", ":", "/", "/", "e", "r", "r", "o", "r", "s", ".", "i", "o", "/", "i", "n", "g", "e", "s", "t">>,
                           authorization |-> "Basic Ym9iOg=="]
    [] u = UrlPassOnly -> [username |-> <<>>, password |-> <<"s", "3">>,
                           target |-> <<"h", "t", "t", "p", "s", ":", "/", "/", "e", "r", "r", "o", "r", "s", ".", "i", "o", "/">>,
                           authorization |-> "Basic OnMz"]
    [] u = UrlPortHost -> [username |-> <<"u">>, password |-> <<"p">>,
                           target |-> <<"h", "t", "t", "p", ":", "/", "/", "e", "r", "r", "o", "r", "s", ".", "i", "o", "/", "v", "1", "/", "i", "n">>,
                           authorization |-> "Basic dTpw"]
    [] u = UrlPlain -> [username |-> <<>>, password |-> <<>>,
                        target |-> <<"h", "t", "t", "p", "s", ":", "/", "/", "e", "r", "r", "o", "r", "s", ".", "i", "o", "/", "i", "n", "g", "e", "s", "t">>,
                           authorization |-> ""]
    [] u = UrlEmptyUserinfo -> [username |-> <<>>, password |-> <<>>,
                                target |-> <<"h", "t", "t", "p", "s", ":", "/", "/", "e", "r", "r", "o", "r", "s", ".", "i", "o", "/", "i", "n", "g", "e", "s", "t">>,
                           authorization |-> ""]
    [] u = UrlAtInPath -> [username |-> <<>>, password |-> <<>>,
                           target |-> <<"h", "t", "t", "p", "s", ":", "/", "/", "e", "r", "r", "o", "r", "s", ".", "i", "o", ":", "8", "4", "4", "3", "/", "u", ":", "p", "@", "x">>,
                           authorization |-> ""]

\* Values HAYSTACK_URL takes: not set is the absence of the entry.
HaystackSettings ==
  { <<>> } \cup UrlsWithCredentials \cup UrlsWithoutCredentials \cup UrlsMalformed

\* Other environment entries: three with the context prefix (two of them
\* aim at a fixed field and at app), one without.
ContextEntries ==
  { [name |-> <<"F", "A", "I", "L", "B", "O", "T", "_", "C", "O", "N", "T", "E", "X", "T", "_", "E", "N", "V">>, value |-> <<"p", "r", "o", "d">>],
    [name |-> <<"F", "A", "I", "L", "B", "O", "T", "_", "C", "O", "N", "T", "E", "X", "T", "_", "C", "L", "A", "S", "S">>, value |-> <<"E", "n", "v", "C", "l", "a", "s", "s">>],
    [name |-> <<"F", "A", "I", "L", "B", "O", "T", "_", "C", "O", "N", "T", "E", "X", "T", "_", "A", "P", "P">>, value |-> <<"e", "n", "v", "-", "a", "p", "p">>],
    [name |-> <<"N", "O", "D", "E", "_", "E", "N", "V">>, value |-> <<"t", "e", "s", "t">>] }

HaystackEntries == { [name |-> HAYSTACK_URL, value |-> v] : v \in HaystackSettings }

\* Start-up environments: HAYSTACK_URL set or not, then up to MaxEnvVars
\* other entries in any order.
Environments ==
  { h \o c : h \in { <<>> } \cup { <<e>> : e \in HaystackEntries },
             c \in DistinctSeqs(ContextEntries, MaxEnvVars) }

\* Errors: the one of the end-to-end example, and one without a stack.
ErrTypeError ==
  [name |-> <<"T", "y", "p", "e", "E", "r", "r", "o", "r">>, message |-> "x is undefined",
   stack |-> Defined(<<"T", "y", "p", "e", "E", "r", "r", "o", "r", ":", " ", "x", " ", "i", "s", " ", "u", "n", "d", "e", "f", "i", "n", "e", "d", "\n", " ", " ", " ", " ", "a", "t", " ", "f", "o", "o", " ", "(", "f", "i", "l", "e", ".", "j", "s", ":", "1", ":", "1", ")">>)]
ErrNoStack == [name |-> <<"E", "r", "r", "o", "r">>, message |-> "boom", stack |-> Undefined]
Errors == { ErrTypeError, ErrNoStack }

\* Metadata arguments: absent, empty, plain, and one that collides with the
\* fixed fields, with app and with a context key.
UndefinedObject == [defined |-> FALSE, value |-> EmptyObject]
MetaPlain == [feature |-> "search"]
MetaColliding ==
  [class |-> "Fake", rollup |-> "meta-rollup", created_at |-> "never",
   app |-> "meta-app", env |-> "meta-env"]
Metadatas ==
  { UndefinedObject, Defined(EmptyObject), Defined(MetaPlain),
    Defined(MetaColliding) }

\* Header mappings a caller builds.
HeadersAuth == ("Authorization" :> "Bearer caller-token")
HeadersOther == ("Content-Type" :> "text/plain") @@ ("X-Request-Id" :> "r1")
HeaderChoices ==
  { EmptyObject, HeadersAuth, HeadersOther, HeadersAuth @@ HeadersOther }

\* The header objects the caller owns, passed to report by reference.
HeaderObjects == { 1 }

\* The headers argument of report: omitted, or one of the caller's objects.
Omitted == [given |-> FALSE, ref |-> 0]
HeaderArgs == { Omitted } \cup { [given |-> TRUE, ref |-> k] : k \in HeaderObjects }

\* Values of new Date().toISOString()
Timestamps == { "2024-01-01T00:00:00.000Z", "2024-01-01T00:00:01.000Z" }

(***************************************************************************)
(* State                                                                   *)
(***************************************************************************)

VARIABLES
  env,            \* process.env: sequence of [name, value]
  callerHeaders,  \* the caller's header objects, by reference
  calls,          \* the report() calls made, with the promise each returned
  network,        \* the requests given to fetch, with their outcome
  console,        \* the lines written by console.warn
  fingerprints    \* results of createRollup calls: [error, rollup]

vars == << env, callerHeaders, calls, network, console, fingerprints >>

NoReporter == [constructed |-> FALSE, app |-> "", haystackURL |-> <<>>]

WarningText == "The haystack URL does not contain authentication credentials"

(***************************************************************************)
(* Operations                                                              *)
(***************************************************************************)

\* What FailBot.report(error, metadata, headers) does up to the point where
\* it returns its promise (the function runs without suspending until fetch
\* has been called): the record of the call, the headers object as the call
\* leaves it, whether console.warn ran, and the requests given to fetch.
reportEffect(id, error, metadata, headers, now) ==
  LET haystackURL == getenv(env, HAYSTACK_URL)
      \* "headers = {}": a fresh object when the argument is omitted
      passed == IF headers.given THEN callerHeaders[headers.ref]
                ELSE EmptyObject
      call == [error |-> error, metadata |-> metadata, headers |-> headers,
               now |-> now, env |-> env, headersAtCall |-> passed,
               headersAfter |-> passed, reporter |-> NoReporter,
               promise |-> Pending]
      failbot == constructor(App, haystackURL.value, passed)
      request == sendException(failbot, error, metadata, env, now)
  IN
  IF notConfigured(haystackURL) THEN
    [call |-> [call EXCEPT !.promise = asyncReturn],
     headers |-> passed, warned |-> FALSE, requests |-> <<>>]
  ELSE IF failbot.thrown THEN
    [call |-> [call EXCEPT !.promise = asyncThrow("TypeError: Invalid URL")],
     headers |-> passed, warned |-> FALSE, requests |-> <<>>]
  ELSE
    [call |-> [call EXCEPT
                 !.headersAfter = failbot.headers,
                 !.reporter = [constructed |-> TRUE, app |-> failbot.app,
                               haystackURL |-> failbot.haystackURL],
                 !.promise = asyncReturnPromise(Pending)],
     headers |-> failbot.headers,
     warned |-> failbot.warned,
     requests |-> << [call |-> id, url |-> request.url,
                      method |-> request.method, headers |-> request.headers,
                      body |-> request.body, promise |-> Pending] >>]

\* A call of FailBot.report(error, metadata, headers).
report(error, metadata, headers, now) ==
  /\ Len(calls) < MaxCalls
  /\ \E did \in { reportEffect(Len(calls) + 1, error, metadata, headers, now) } :
       /\ calls' = Append(calls, did.call)
       /\ callerHeaders' =
            IF headers.given
              THEN [callerHeaders EXCEPT ![headers.ref] = did.headers]
              ELSE callerHeaders
       /\ console' =
            IF did.warned
              THEN Append(console, [call |-> Len(calls) + 1, text |-> WarningText])
              ELSE console
       /\ network' = network \o did.requests
  /\ UNCHANGED << env, fingerprints >>

\* The promise of request i settles: fetch's promise and, through the two
\* "return"s, the promise report returned.
settle(i, outcome) ==
  /\ i \in DOMAIN network
  /\ network[i].promise.state = "pending"
  /\ network' = [network EXCEPT ![i].promise = outcome]
  /\ calls' = [calls EXCEPT ![network[i].call].promise =
                 asyncReturnPromise(outcome)]
  /\ UNCHANGED << env, callerHeaders, console, fingerprints >>

\* The service answers request i with an HTTP status.
fetchResponds(i, status) == settle(i, Fulfilled("Response " \o status))

\* Request i fails at the network level (DNS, connection refused).
fetchFails(i) == settle(i, Rejected("FetchError: ECONNREFUSED"))

\* The process environment changes between calls: a variable is set ...
setenv(name, value) ==
  /\ getenv(env, name) # Defined(value)
  /\ env' =
       IF getenv(env, name).defined
         THEN [i \in DOMAIN env |->
                 IF env[i].name = name THEN [name |-> name, value |-> value]
                 ELSE env[i]]
         ELSE Append(env, [name |-> name, value |-> value])
  /\ UNCHANGED << callerHeaders, calls, network, console, fingerprints >>

\* ... or deleted.
unsetenv(name) ==
  /\ getenv(env, name).defined
  /\ env' = SelectSeq(env, LAMBDA e : e.name # name)
  /\ UNCHANGED << callerHeaders, calls, network, console, fingerprints >>

Statuses == { "200", "500" }

(***************************************************************************)
(* Spec: concurrent report() calls in a process whose endpoint setting     *)
(* changes.                                                                *)
(***************************************************************************)

Init ==
  /\ env = <<>>
  /\ callerHeaders = [k \in HeaderObjects |-> EmptyObject]
  /\ calls = <<>>
  /\ network = <<>>
  /\ console = <<>>
  /\ fingerprints = <<>>

SpecEndpoints == { <<>>, UrlUserPass, UrlPlain, UrlNoScheme }

Next ==
  \/ \E v \in SpecEndpoints : setenv(HAYSTACK_URL, v)
  \/ unsetenv(HAYSTACK_URL)
  \/ \E m \in { UndefinedObject, Defined(MetaPlain) }, h \in HeaderArgs :
       report(ErrTypeError, m, h, "2024-01-01T00:00:00.000Z")
  \/ \E i \in 1..MaxCalls, s \in Statuses : fetchResponds(i, s)
  \/ \E i \in 1..MaxCalls : fetchFails(i)

Spec == Init /\ [][Next]_vars

(***************************************************************************)
(* SpecCall: one report() call, over all start-up environments, caller     *)
(* headers and arguments.                                                  *)
(***************************************************************************)

InitCall ==
  /\ env \in Environments
  /\ callerHeaders \in [HeaderObjects -> HeaderChoices]
  /\ calls = <<>>
  /\ network = <<>>
  /\ console = <<>>
  /\ fingerprints = <<>>

NextCall ==
  \/ /\ calls = <<>>
     /\ \E e \in Errors, m \in Metadatas, h \in HeaderArgs, t \in Timestamps :
          report(e, m, h, t)
  \/ \E s \in Statuses : fetchResponds(1, s)
  \/ fetchFails(1)

SpecCall == InitCall /\ [][NextCall]_vars

(***************************************************************************)
(* SpecRollup: createRollup applied to two errors.                         *)
(***************************************************************************)

\* Error names: plain, with a ":" and with a "=".
RollupNames == { <<"E", "r", "r">>, <<"E", "r", "r", ":", "a">>, <<"E", "r", "r", "=">> }

\* Stack lines: empty, plain, with ":" and "=", and the word undefined.
RollupLines == { <<>>, <<"b">>, <<"a", ":", "b">>, <<"b", "=">>, <<"u", "n", "d", "e", "f", "i", "n", "e", "d">> }

\* Array.prototype.join("\n")
RECURSIVE join(_)
join(lines) ==
  IF Len(lines) = 1 THEN lines[1]
  ELSE lines[1] \o <<"\n">> \o join(Tail(lines))

\* Stacks: absent, or one to MaxLines lines.
RollupStacks ==
  { Undefined } \cup
  { Defined(join(ls)) : ls \in UNION { [1..n -> RollupLines] : n \in 1..MaxLines } }

RollupErrors ==
  { [name |-> n, message |-> "m", stack |-> s] :
      n \in RollupNames, s \in RollupStacks }

\* createRollup(error) is called and its result kept.
rollup(error) ==
  /\ Len(fingerprints) < 2
  /\ fingerprints' =
       Append(fingerprints, [error |-> error, rollup |-> createRollup(error)])
  /\ UNCHANGED << env, callerHeaders, calls, network, console >>

NextRollup == \E e \in RollupErrors : rollup(e)

SpecRollup == Init /\ [][NextRollup]_vars

(***************************************************************************)
(* Properties                                                              *)
(***************************************************************************)

\* The requests and warnings that call i caused.
requestsOf(i) == { j \in DOMAIN network : network[j].call = i }
warningsOf(i) == { k \in DOMAIN console : console[k].call = i }

\* The value of HAYSTACK_URL when call c was made.
endpointAt(c) == getenv(c.env, HAYSTACK_URL)

\* Call c found HAYSTACK_URL set to a value of set S.
endpointIn(c, S) == endpointAt(c).defined /\ endpointAt(c).value \in S

\* Call i left the headers mapping it was given as it was: when it
\* returned, and in the caller's object as long as no later call was made.
headersUntouched(i) ==
  /\ calls[i].headersAfter = calls[i].headersAtCall
  /\ (calls[i].headers.given /\ i = Len(calls)) =>
       callerHeaders[calls[i].headers.ref] = calls[i].headersAtCall

\* C1: with HAYSTACK_URL unset or empty, report is a no-op: its promise is
\* fulfilled with no value, no request is issued, no Reporter is
\* constructed, no warning is written and the caller's headers mapping is
\* left unchanged.
C1_NoEndpointIsNoOp ==
  \A i \in DOMAIN calls :
    (~endpointAt(calls[i]).defined \/ endpointAt(calls[i]).value = <<>>) =>
      /\ calls[i].promise = Fulfilled("undefined")
      /\ requestsOf(i) = {}
      /\ warningsOf(i) = {}
      /\ ~calls[i].reporter.constructed
      /\ headersUntouched(i)

\* A report made with HAYSTACK_URL set to the empty string, with a
\* non-empty caller headers mapping, has returned.
C1_Witness ==
  \E i \in DOMAIN calls :
    /\ endpointIn(calls[i], { <<>> })
    /\ calls[i].headers.given
    /\ calls[i].headersAtCall # EmptyObject
    /\ calls[i].promise.state = "fulfilled"

\* The request URL u re-parsed: it holds no credentials, query or fragment.
bareURL(u) ==
  LET url == URL(u) IN
  /\ url.ok
  /\ url.username = <<>> /\ url.password = <<>>
  /\ url.search = <<>> /\ url.hash = <<>>
  /\ \A k \in DOMAIN u : u[k] \notin {"?", "#"}

\* C2: for an endpoint with a username or a password, the POST goes to
\* origin + pathname of the endpoint, without credentials, query or
\* fragment, and carries Authorization: Basic base64(username:password);
\* the request URL a Reporter holds never has credentials.
C2_CredentialsMoveToHeader ==
  /\ \A i \in DOMAIN calls :
       endpointIn(calls[i], UrlsWithCredentials) =>
         LET parts == Parts(endpointAt(calls[i]).value) IN
         /\ requestsOf(i) # {}
         /\ \A j \in requestsOf(i) :
              /\ network[j].url = parts.target
              /\ bareURL(network[j].url)
              /\ "Authorization" \in DOMAIN network[j].headers
              /\ network[j].headers["Authorization"] = parts.authorization
              /\ parts.authorization =
                   "Basic " \o Str(toBase64(parts.username \o <<":">>
                                            \o parts.password))
  /\ \A i \in DOMAIN calls :
       calls[i].reporter.constructed => bareURL(calls[i].reporter.haystackURL)

\* A request was issued for an endpoint with a password and no username, or
\* for one with a username only, a query string and a fragment.
C2_Witness ==
  \E i \in DOMAIN calls :
    /\ endpointIn(calls[i], { UrlPassOnly, UrlUserOnly })
    /\ requestsOf(i) # {}
    /\ calls[i].reporter.constructed

\* C3: for an endpoint without credentials the construction succeeds, one
\* warning is written, the POST is issued, and the request has an
\* Authorization header only if the headers argument already had one.
C3_NoCredentialsWarnsAndSends ==
  \A i \in DOMAIN calls :
    endpointIn(calls[i], UrlsWithoutCredentials) =>
      /\ calls[i].reporter.constructed
      /\ calls[i].promise # Rejected("TypeError: Invalid URL")
      /\ Cardinality(warningsOf(i)) = 1
      /\ Cardinality(requestsOf(i)) = 1
      /\ \A j \in requestsOf(i) :
           /\ "Authorization" \in DOMAIN network[j].headers
                <=> "Authorization" \in DOMAIN calls[i].headersAtCall
           /\ "Authorization" \in DOMAIN network[j].headers =>
                network[j].headers["Authorization"] =
                  calls[i].headersAtCall["Authorization"]

\* A request was issued for an endpoint with an empty userinfo ":@", by a
\* call whose headers had no Authorization.
C3_Witness ==
  \E i \in DOMAIN calls :
    /\ endpointIn(calls[i], { UrlEmptyUserinfo })
    /\ "Authorization" \notin DOMAIN calls[i].headersAtCall
    /\ requestsOf(i) # {}
    /\ warningsOf(i) # {}

\* C4: a report with a parseable endpoint issues exactly one POST, and the
\* promise it returned has that request's outcome: rejected on a network
\* failure, fulfilled with the response whatever its status; nothing is
\* retried and nothing but the credentials advisory is logged.
C4_OnePostOutcomeUnchanged ==
  /\ \A i \in DOMAIN calls :
       endpointIn(calls[i], UrlsWithCredentials \cup UrlsWithoutCredentials) =>
         /\ Cardinality(requestsOf(i)) = 1
         /\ \A j \in requestsOf(i) :
              /\ network[j].method = "POST"
              /\ calls[i].promise = network[j].promise
  /\ \A k \in DOMAIN console :
       /\ console[k].text = WarningText
       /\ endpointIn(calls[console[k].call], UrlsWithoutCredentials)
  /\ Len(network) <= Len(calls)

\* One call's request failed at the network level and its promise is
\* rejected, another call's request got status 500 and its promise is
\* fulfilled with that response.
C4_Witness ==
  \E i, k \in DOMAIN calls :
    /\ \E j \in requestsOf(i) :
         /\ network[j].promise = Rejected("FetchError: ECONNREFUSED")
         /\ calls[i].promise.state = "rejected"
    /\ \E j \in requestsOf(k) :
         /\ network[j].promise = Fulfilled("Response 500")
         /\ calls[k].promise.state = "fulfilled"

\* C5: with HAYSTACK_URL set to a string that is not an absolute URL, the
\* construction fails, report's promise is rejected, no request is issued,
\* no warning is written and the caller's headers mapping is not modified.
C5_MalformedEndpointRejects ==
  \A i \in DOMAIN calls :
    endpointIn(calls[i], UrlsMalformed) =>
      /\ calls[i].promise.state = "rejected"
      /\ ~calls[i].reporter.constructed
      /\ requestsOf(i) = {}
      /\ warningsOf(i) = {}
      /\ headersUntouched(i)

\* A report made with an endpoint that has credentials but no host, with
\* the caller's headers mapping, was rejected.
C5_Witness ==
  \E i \in DOMAIN calls :
    /\ endpointIn(calls[i], { UrlCredsNoHost })
    /\ calls[i].headers.given
    /\ calls[i].promise.state = "rejected"

\* The context entry an environment entry stands for, written down
\* independently of getFailbotContext.
ContextOf(entry) ==
  CASE entry.name = <<"F", "A", "I", "L", "B", "O", "T", "_", "C", "O", "N", "T", "E", "X", "T", "_", "E", "N", "V">> -> ("env" :> "prod")
    [] entry.name = <<"F", "A", "I", "L", "B", "O", "T", "_", "C", "O", "N", "T", "E", "X", "T", "_", "C", "L", "A", "S", "S">> -> ("class" :> "EnvClass")
    [] entry.name = <<"F", "A", "I", "L", "B", "O", "T", "_", "C", "O", "N", "T", "E", "X", "T", "_", "A", "P", "P">> -> ("app" :> "env-app")
    [] OTHER -> EmptyObject

\* The keys formatJSON sets itself.
FixedKeys ==
  { "created_at", "rollup", "class", "message", "backtrace", "js_environment" }

\* The fixed fields of call c.
FixedFields(c) ==
  [created_at |-> c.now,
   rollup |-> Str(createRollup(c.error)),
   class |-> Str(c.error.name),
   message |-> c.error.message,
   backtrace |-> IF c.error.stack.defined THEN Str(c.error.stack.value) ELSE "",
   js_environment |-> "Node.js v20.11.0"]

\* The value of key k in a JSON text.
JSONvalue(text, k) == (CHOOSE m \in text : m[1] = k)[2]

\* C6: in the body sent, the fixed fields win over the metadata, which wins
\* over the FAILBOT_CONTEXT_ entries, which win over app = "docs"; the second
\* merge of app does not change the result of the first.
C6_MergePrecedence ==
  \A j \in DOMAIN network :
    \A c \in { calls[network[j].call] } :
      \A fixed \in { FixedFields(c) },
         data \in { requestData(App, c.env, c.metadata.value) },
         ctx \in { { e \in ContextEntries : \E n \in DOMAIN c.env : c.env[n] = e } } :
        LET md == c.metadata.value
            ctxKeys == UNION { DOMAIN ContextOf(e) : e \in ctx }
            body == network[j].body
            keys == { m[1] : m \in body }
        IN
        /\ keys = FixedKeys \cup DOMAIN md \cup ctxKeys \cup { "app" }
        /\ Cardinality(body) = Cardinality(keys)
        /\ \A k \in keys :
             JSONvalue(body, k) =
               IF k \in FixedKeys THEN fixed[k]
               ELSE IF k \in DOMAIN md THEN md[k]
               ELSE IF k \in ctxKeys
                 THEN ContextOf(CHOOSE e \in ctx : k \in DOMAIN ContextOf(e))[k]
               ELSE "docs"
        /\ withApp(App, data) = data

\* A request was sent for metadata that sets class, rollup, created_at, app
\* and env, under an environment that sets FAILBOT_CONTEXT_CLASS and
\* FAILBOT_CONTEXT_ENV.
C6_Witness ==
  \E j \in DOMAIN network :
    LET c == calls[network[j].call] IN
    /\ c.metadata = Defined(MetaColliding)
    /\ \E n \in DOMAIN c.env : c.env[n].name = <<"F", "A", "I", "L", "B", "O", "T", "_", "C", "O", "N", "T", "E", "X", "T", "_", "C", "L", "A", "S", "S">>
    /\ \E n \in DOMAIN c.env : c.env[n].name = <<"F", "A", "I", "L", "B", "O", "T", "_", "C", "O", "N", "T", "E", "X", "T", "_", "E", "N", "V">>

\* C7: the headers of the POST are the caller's headers, overlaid by the
\* derived Authorization when the endpoint has credentials, overlaid by
\* Content-Type: application/json.
C7_HeaderOverlay ==
  \A j \in DOMAIN network :
    LET c == calls[network[j].call]
        creds == endpointIn(c, UrlsWithCredentials)
        caller == c.headersAtCall
        sent == network[j].headers
    IN
    /\ DOMAIN sent =
         DOMAIN caller \cup { "Content-Type" }
           \cup (IF creds THEN { "Authorization" } ELSE {})
    /\ \A k \in DOMAIN sent :
         sent[k] =
           IF k = "Content-Type" THEN "application/json"
           ELSE IF k = "Authorization" /\ creds
             THEN Parts(endpointAt(c).value).authorization
           ELSE caller[k]

\* A request was sent for an endpoint with credentials by a caller whose
\* headers set Content-Type, Authorization and another header.
C7_Witness ==
  \E j \in DOMAIN network :
    LET c == calls[network[j].call] IN
    /\ endpointIn(c, UrlsWithCredentials)
    /\ c.headersAtCall = HeadersAuth @@ HeadersOther

\* C8: the rollup createRollup returns contains no "=" character.
C8_RollupHasNoPadding ==
  \A i \in DOMAIN fingerprints :
    \A k \in DOMAIN fingerprints[i].rollup : fingerprints[i].rollup[k] # "="

\* The second line of a stack, read off the positions of its line breaks:
\* undefined without a stack, with a single non-empty line; "" for an
\* empty stack.
SecondLine(stack) ==
  LET s == stack.value
      nl1 == IndexOf(s, "\n", 1)
      nl2 == IndexOf(s, "\n", nl1 + 1)
  IN
  IF ~stack.defined THEN Undefined
  ELSE IF s = <<>> THEN Defined(<<>>)
  ELSE IF nl1 = 0 THEN Undefined
  ELSE Defined(SubSeq(s, nl1 + 1, IF nl2 = 0 THEN Len(s) ELSE nl2 - 1))

\* C9 as stated: equal (name, second line) pairs give equal rollups, and
\* two errors that differ in name or in second line never get the same
\* rollup.
C9_RollupDistinguishes ==
  \A i, j \in DOMAIN fingerprints :
    LET a == fingerprints[i]
        b == fingerprints[j]
        same == /\ a.error.name = b.error.name
                /\ SecondLine(a.error.stack) = SecondLine(b.error.stack)
    IN (a.rollup = b.rollup) <=> same

\* The text the rollup stands for: "<name>:<second line>", the second line
\* being "undefined" when there is none, with every "=" left out.
RollupText(error) ==
  LET line == SecondLine(error.stack)
      text == error.name \o <<":">>
              \o (IF line.defined THEN line.value ELSE <<"u", "n", "d", "e", "f", "i", "n", "e", "d">>)
  IN SelectSeq(text, LAMBDA ch : ch # "=")

\* C9 amended: equal (name, second line) pairs give equal rollups, and two
\* errors get the same rollup exactly when "<name>:<second line>" without
\* its "=" characters is the same text for both.
C9_RollupKeyedByText ==
  \A i, j \in DOMAIN fingerprints :
    LET a == fingerprints[i]
        b == fingerprints[j]
    IN
    /\ (a.error.name = b.error.name
        /\ SecondLine(a.error.stack) = SecondLine(b.error.stack))
         => a.rollup = b.rollup
    /\ (a.rollup = b.rollup) <=> (RollupText(a.error) = RollupText(b.error))

\* Two errors with different names and the same second line got the same
\* rollup, the names differing by a "=".
C9_Witness ==
  /\ Len(fingerprints) = 2
  /\ fingerprints[1].error.name # fingerprints[2].error.name
  /\ SecondLine(fingerprints[1].error.stack).defined
  /\ SecondLine(fingerprints[1].error.stack)
       = SecondLine(fingerprints[2].error.stack)
  /\ fingerprints[1].error.stack # fingerprints[2].error.stack
  /\ fingerprints[1].rollup = fingerprints[2].rollup

\* C10: a call leaves nothing behind that a later call observes: a report
\* made while the endpoint has no credentials sends no Authorization header
\* unless the caller put one into the headers mapping (and this caller
\* never does: its mappings are created empty).
C10_NoStaleAuthorization ==
  \A i \in DOMAIN calls :
    endpointIn(calls[i], UrlsWithoutCredentials) =>
      \A j \in requestsOf(i) : "Authorization" \notin DOMAIN network[j].headers

====
